---- MODULE Spec2Model ----
(***************************************************************************)
(* vscode-extension-util: the reactive configuration store and the logger. *)
(*                                                                         *)
(*   src/src/event/event.ts    EventSource, EventHandlerRegistrar          *)
(*   src/src/config/config.ts  ConfigurationProperty, Configuration        *)
(*   src/src/logger.ts         SelectiveLogger                             *)
(*                                                                         *)
(* Five specifications share the module:                                   *)
(*   SpecEvent     one EventSource and the callers of its three methods    *)
(*   SpecNotify    one notify call of an EventSource, handler by handler   *)
(*   SpecProperty  one ConfigurationProperty read from a raw source        *)
(*   SpecConfig    two Configurations bound to two workspace folders       *)
(*   SpecLogger    one SelectiveLogger and its core logger                 *)
(***************************************************************************)
EXTENDS Integers, Sequences, FiniteSets, TLC

VARIABLES
    uuid,        \* the next id uuid() hands out (event.ts:17)
    outcome,     \* how the last call ended: "ok", or the string it threw
    esHandlers,  \* EventSource.handlers: the Map's entries, in insertion order
    esOp,        \* the last call made on the EventSource
    esPass,      \* the last notify pass: value, handlers before/after, calls
    prop,        \* one ConfigurationProperty: its fields (config.ts:18-28)
    raw,         \* what vscodeConfig.get(prop.name) finds: Undefined is no entry
    rawValues,   \* the values the raw source takes for prop.name in this run
    pHist,       \* the reload and get calls made on prop since its construction
    cfgRaw,      \* the host's configuration: workspace folder -> name -> entry
    cfgProps,    \* the property objects the Configurations own
    cfgBuilt,    \* which Configurations have been constructed
    cfgListeners,\* the listeners of the host's onDidChangeConfiguration, in order
    cfgOp,       \* the last call or host event, and what it did
    logger,      \* one SelectiveLogger: its core logger and its level
    logOp,       \* the last call made on the logger
    nfMap,       \* the handlers Map of an EventSource ahead of forEach's cursor
    nfPass       \* the notify call followed step by step

esVars == <<esHandlers, esOp, esPass>>

propVars == <<prop, raw, rawValues, pHist>>

cfgVars == <<cfgRaw, cfgProps, cfgBuilt, cfgListeners, cfgOp>>

logVars == <<logger, logOp>>

nfVars == <<nfMap, nfPass>>

vars == <<uuid, outcome, esHandlers, esOp, esPass, prop, raw, rawValues, pHist,
          cfgRaw, cfgProps, cfgBuilt, cfgListeners, cfgOp, logger, logOp,
          nfMap, nfPass>>

(***************************************************************************)
(* Bounds of the model.                                                    *)
(***************************************************************************)
MaxIds == 3          \* uuid() is called at most this many times
MaxHandlers == 2     \* entries one handlers Map holds at most
MaxCalls == 3        \* reload and get calls followed on one property
MaxLines == 2        \* messages one core logger receives at most

(***************************************************************************)
(* JavaScript values.  A value is a type tag and a payload: the chunks of  *)
(* a string, the numeral of a number, the identity of an object instance.  *)
(***************************************************************************)
Undefined == [t |-> "undefined", s |-> <<>>]
Null == [t |-> "null", s |-> <<>>]
Num(numeral) == [t |-> "number", s |-> <<numeral>>]
Str(chunks) == [t |-> "string", s |-> chunks]
Obj(instance) == [t |-> "object", s |-> <<instance>>]
Bool(literal) == [t |-> "boolean", s |-> <<literal>>]

Zero == Num("0")
EmptyStr == Str(<<>>)
False == Bool("false")

\* ToBoolean, as the conditional operator of config.ts:50 applies it.
Truthy(v) ==
    CASE v.t \in {"undefined", "null"} -> FALSE
      [] v.t = "number" -> v.s # <<"0">>
      [] v.t = "string" -> v.s # <<>>
      [] v.t = "boolean" -> v.s = <<"true">>
      [] OTHER -> TRUE

\* ToNumber of a string, as == applies it: "" is 0, a numeral is its number,
\* anything else is NaN.
StrToNum(v) ==
    CASE v.s = <<>> -> "0"
      [] v.s = <<"0">> -> "0"
      [] OTHER -> "NaN"

\* ToNumber of a boolean, as == applies it.
BoolToNum(v) == IF v.s = <<"true">> THEN "1" ELSE "0"

\* Strict equality: primitives by value, objects by identity.
StrictEq(a, b) == a = b

\* a == b of JavaScript (Abstract Equality Comparison): same type is strict
\* equality, objects by identity; null == undefined; a number and a string
\* compare as numbers, and a boolean compares as its number; a plain object
\* compares to a primitive through its string "[object Object]", which no
\* value here is.
LooseEq(a, b) ==
    CASE a.t = b.t -> a = b
      [] a.t \in {"undefined", "null"} /\ b.t \in {"undefined", "null"} -> TRUE
      [] a.t = "number" /\ b.t = "string" -> a.s = <<StrToNum(b)>>
      [] a.t = "string" /\ b.t = "number" -> b.s = <<StrToNum(a)>>
      [] a.t = "boolean" /\ b.t = "number" -> b.s = <<BoolToNum(a)>>
      [] a.t = "number" /\ b.t = "boolean" -> a.s = <<BoolToNum(b)>>
      [] a.t = "boolean" /\ b.t = "string" -> StrToNum(b) = BoolToNum(a)
      [] a.t = "string" /\ b.t = "boolean" -> StrToNum(a) = BoolToNum(b)
      [] OTHER -> FALSE

(***************************************************************************)
(* Map<string, EventHandler<T>> (event.ts:14).  An entry is                *)
(*   [id, kind, target, live]                                              *)
(* where kind says what the registered callback does when it is invoked:   *)
(*   "log"          records the call and returns                           *)
(*   "disposeSelf"  disposes its own registrar token                       *)
(*   "unregister"   calls unregister(target) on the source                 *)
(*   "register"     registers one more "log" handler on the source         *)
(*   "respawn"      registers itself once more on the source               *)
(* Map.prototype.delete empties the entry's slot and forEach skips the     *)
(* emptied slots (ECMAScript 24.1.3.3, 24.1.3.5): live = FALSE is the      *)
(* emptied slot.  Outside a forEach the slot is dropped at once, which no  *)
(* caller can tell apart.                                                  *)
(***************************************************************************)
HandlerKinds == {"log", "disposeSelf", "unregister", "register"}

Entry(id, kind, target) == [id |-> id, kind |-> kind, target |-> target, live |-> TRUE]

LiveIds(hs) == {hs[i].id : i \in {j \in DOMAIN hs : hs[j].live}}

Compact(hs) == SelectSeq(hs, LAMBDA e : e.live)

\* Map.prototype.set with a fresh key: the entry goes to the end.
MapSet(hs, e) == Append(hs, e)

\* An array-style removal: the later entries move down under a running forEach.
MapDeleteSplice(hs, id, iterating) ==
    SelectSeq(hs, LAMBDA e : e.id # id)

\* Map.prototype.delete: no entry with that key is a no-op.
MapDelete(hs, id, iterating) ==
    IF iterating
    THEN [i \in DOMAIN hs |-> IF hs[i].id = id THEN [hs[i] EXCEPT !.live = FALSE] ELSE hs[i]]
    ELSE SelectSeq(hs, LAMBDA e : e.id # id)

(***************************************************************************)
(* EventSource (event.ts:13-34).  Each method is an operator from the      *)
(* handlers (and the uuid counter) to the result of the call.              *)
(***************************************************************************)
register(hs, id, kind, target) ==
    [handlers |-> MapSet(hs, Entry(id, kind, target)), thrown |-> FALSE]

\* unregister that raises for an id that is not registered.
unregisterStrict(hs, id, iterating) ==
    IF id \in LiveIds(hs)
    THEN [handlers |-> MapDelete(hs, id, iterating), thrown |-> FALSE]
    ELSE [handlers |-> hs, thrown |-> TRUE]

unregister(hs, id, iterating) ==
    [handlers |-> MapDelete(hs, id, iterating), thrown |-> FALSE]

\* EventHandlerRegistrar.dispose: unregisterFunc() is the closure of
\* register, `if (source) source.unregister(handlerId)`, source being `this`.
dispose(hs, id, iterating) == unregister(hs, id, iterating)

\* One callback invocation h(value) inside forEach: st is
\* [handlers, uuid, calls, thrown].
Invoke(st, i, value) ==
    LET e == st.handlers[i]
        called == [st EXCEPT !.calls = Append(@, <<e.id, value>>)]
    IN  CASE e.kind = "log" -> called
          [] e.kind = "disposeSelf" ->
                LET r == dispose(st.handlers, e.id, TRUE)
                IN  [called EXCEPT !.handlers = r.handlers,
                                   !.thrown = @ \/ r.thrown]
          [] e.kind = "unregister" ->
                LET r == unregister(st.handlers, e.target, TRUE)
                IN  [called EXCEPT !.handlers = r.handlers,
                                   !.thrown = @ \/ r.thrown]
          [] e.kind = "register" ->
                LET r == register(st.handlers, st.uuid, "log", 0)
                IN  [called EXCEPT !.handlers = r.handlers,
                                   !.uuid = @ + 1,
                                   !.thrown = @ \/ r.thrown]
          [] e.kind = "respawn" ->
                LET r == register(st.handlers, st.uuid, "respawn", 0)
                IN  [called EXCEPT !.handlers = r.handlers,
                                   !.uuid = @ + 1,
                                   !.thrown = @ \/ r.thrown]

\* this.handlers.forEach((h) => h(value)): the entries are visited in
\* insertion order, entries appended during the pass included, emptied
\* slots skipped; a callback that throws ends the pass.
RECURSIVE forEach(_, _, _)
forEach(st, i, value) ==
    IF i > Len(st.handlers) \/ st.thrown
    THEN st
    ELSE IF st.handlers[i].live
         THEN forEach(Invoke(st, i, value), i + 1, value)
         ELSE forEach(st, i + 1, value)

notify(hs, nextId, value) ==
    LET st == forEach([handlers |-> hs, uuid |-> nextId,
                       calls |-> <<>>, thrown |-> FALSE], 1, value)
    IN  [st EXCEPT !.handlers = Compact(@)]

Count(calls, id) == Cardinality({i \in DOMAIN calls : calls[i][1] = id})

Registering(hs) == Cardinality({i \in DOMAIN hs : hs[i].kind = "register"})

(***************************************************************************)
(* ConfigurationProperty (config.ts:15-61).  A property is the record of   *)
(* its fields; handlers is the Map it inherits from EventSource.           *)
(***************************************************************************)
\* vscode.WorkspaceConfiguration.get(section) and get(section, defaultValue)
\* of the host: the entry, or defaultValue (undefined when not passed) when
\* the configuration has no entry.  found is the entry, Undefined for none.
ConfigGet(found, defaultValue) ==
    IF found = Undefined THEN defaultValue ELSE found

\* The validator the property is constructed with: a non-empty string.
validator(v) == v.t = "string" /\ v.s # <<>>

\* A constructor that leaves value undefined until the first re-read.
ConfigurationPropertyUnset(name, group, defaultValue, symbolResolvers, cached) ==
    [name |-> name, group |-> group, defaultValue |-> defaultValue,
     symbolResolvers |-> symbolResolvers, cached |-> cached,
     value |-> Undefined, valid |-> validator(Undefined),
     handlers |-> <<>>]

\* new ConfigurationProperty(name, group, validator, defaultValue,
\* symbolResolvers, cached): value and valid are initialised from the default.
ConfigurationProperty(name, group, defaultValue, symbolResolvers, cached) ==
    [name |-> name, group |-> group, defaultValue |-> defaultValue,
     symbolResolvers |-> symbolResolvers, cached |-> cached,
     value |-> defaultValue, valid |-> validator(defaultValue),
     handlers |-> <<>>]

\* No handler was invoked, so none looked at the property.
NotSeen == <<>>

\* The result of a call that did nothing to the property.
Untouched(p, nextId) ==
    [prop |-> p, uuid |-> nextId, calls |-> <<>>, reads |-> 0,
     ret |-> Undefined, thrown |-> FALSE, seen |-> NotSeen]

RECURSIVE refresh(_, _, _)

\* get that re-reads whatever cached says.
getAlwaysRefresh(p, found, nextId) ==
    LET r == refresh(p, found, nextId)
    IN  [r EXCEPT !.ret = r.prop.value]

\* get that never re-reads.
getStored(p, found, nextId) ==
    [Untouched(p, nextId) EXCEPT !.ret = p.value]

\* get (config.ts:38-43)
get(p, found, nextId) ==
    LET r == IF ~p.cached THEN refresh(p, found, nextId) ELSE Untouched(p, nextId)
    IN  [r EXCEPT !.ret = r.prop.value]

\* isValid (config.ts:45-47)
isValid(p) == p.valid

\* What a handler finds when this.notify(this.value) (config.ts:57) invokes
\* it while the property is q: the fields, and what its own call of
\* get(vscodeConfig) on the property returns and does; the raw source is
\* the one the outer re-read read.
Reentered(q, found, nextId) ==
    LET g == get(q, found, nextId)
    IN  [value |-> q.value, valid |-> isValid(q),
         reads |-> g.reads, ret |-> g.ret, calls |-> g.calls,
         valueAfter |-> g.prop.value, validAfter |-> isValid(g.prop)]

\* refresh that notifies on every re-read.
refreshAlways(p, found, nextId) ==
    LET v == IF Truthy(p.defaultValue)
             THEN ConfigGet(found, p.defaultValue)
             ELSE ConfigGet(found, Undefined)
        n == notify(p.handlers, nextId, v)
    IN  [prop |-> [p EXCEPT !.value = v, !.valid = validator(v), !.handlers = n.handlers],
         uuid |-> n.uuid, calls |-> n.calls, reads |-> 1, ret |-> v,
         thrown |-> n.thrown, seen |-> NotSeen]

\* refresh that assigns valid only after it has notified.
refreshValidAfterNotify(p, found, nextId) ==
    LET v == IF Truthy(p.defaultValue)
             THEN ConfigGet(found, p.defaultValue)
             ELSE ConfigGet(found, Undefined)
        changed == ~LooseEq(p.value, v)
        q == [p EXCEPT !.value = v]
        n == IF changed
             THEN notify(q.handlers, nextId, q.value)
             ELSE [handlers |-> q.handlers, uuid |-> nextId,
                   calls |-> <<>>, thrown |-> FALSE]
    IN  [prop |-> [q EXCEPT !.valid = validator(v), !.handlers = n.handlers],
         uuid |-> n.uuid, calls |-> n.calls, reads |-> 1, ret |-> q.value,
         thrown |-> n.thrown,
         seen |-> IF n.calls # <<>> THEN Reentered(q, found, n.uuid) ELSE NotSeen]

\* refresh (config.ts:49-60).  value and valid are assigned (54-55) before
\* notify runs the handlers (57).
refresh(p, found, nextId) ==
    LET v == IF Truthy(p.defaultValue)
             THEN ConfigGet(found, p.defaultValue)
             ELSE ConfigGet(found, Undefined)
        changed == ~LooseEq(p.value, v)
        q == [p EXCEPT !.value = v, !.valid = validator(v)]
        n == IF changed
             THEN notify(q.handlers, nextId, q.value)
             ELSE [handlers |-> q.handlers, uuid |-> nextId,
                   calls |-> <<>>, thrown |-> FALSE]
    IN  [prop |-> [q EXCEPT !.handlers = n.handlers],
         uuid |-> n.uuid, calls |-> n.calls, reads |-> 1, ret |-> q.value,
         thrown |-> n.thrown,
         seen |-> IF n.calls # <<>> THEN Reentered(q, found, n.uuid) ELSE NotSeen]

\* reload that re-reads whatever cached says.
reloadAlways(p, found, nextId) ==
    [refresh(p, found, nextId) EXCEPT !.ret = Undefined]

\* reload (config.ts:32-36)
reload(p, found, nextId) ==
    IF p.cached
    THEN [refresh(p, found, nextId) EXCEPT !.ret = Undefined]
    ELSE Untouched(p, nextId)

(***************************************************************************)
(* Symbol resolvers (./symbol, imported at config.ts:4).  A resolver       *)
(* replaces one placeholder chunk of a string; a chain applies its         *)
(* resolvers left to right, each on the previous one's output; values      *)
(* that are not strings pass through.                                      *)
(***************************************************************************)
SymbolResolver(from, to) == [from |-> from, to |-> to]

WorkspaceSymbolResolver(folder) == SymbolResolver("${workspaceFolder}", folder)

resolve(r, chunks) ==
    [i \in DOMAIN chunks |-> IF chunks[i] = r.from THEN r.to ELSE chunks[i]]

RECURSIVE resolveChain(_, _)
resolveChain(chunks, resolvers) ==
    IF resolvers = <<>> THEN chunks
    ELSE resolveChain(resolve(Head(resolvers), chunks), Tail(resolvers))

resolveSymbols(value, resolvers) ==
    IF value.t = "string" THEN Str(resolveChain(value.s, resolvers)) ELSE value

(***************************************************************************)
(* Configuration (config.ts:68-149).  Two Configurations of the same       *)
(* configurationName, bound to two workspace folders:                      *)
(*   c1 on /ws1 owns propA (cached, no default, with a resolver of its own *)
(*      for ${workspaceFolder}) and propB (uncached, default "d")          *)
(*   c2 on /ws2 owns propA (cached, with the default 0)                    *)
(***************************************************************************)
Configs == <<"c1", "c2">>

ConfigIds == {Configs[i] : i \in DOMAIN Configs}

WorkspaceFolders == {"/ws1", "/ws2"}

configurationName(c) == "myExt"

workspaceFolder(c) == IF c = "c1" THEN "/ws1" ELSE "/ws2"

\* this.symbolResolvers after the constructor (config.ts:69, 79)
symbolResolvers(c) == <<WorkspaceSymbolResolver(workspaceFolder(c))>>

\* this.properties: the names of the Map handed to the constructor, in
\* insertion order.
Registry(c) == IF c = "c1" THEN <<"propA", "propB">> ELSE <<"propA">>

Names(c) == {Registry(c)[i] : i \in DOMAIN Registry(c)}

Owned == {<<c, n>> : c \in ConfigIds, n \in {"propA", "propB"}} \ {<<"c2", "propB">>}

\* The property objects as their creator constructs them.
NewProperty(c, n) ==
    CASE c = "c1" /\ n = "propA" ->
            ConfigurationProperty("propA", "hot", Undefined,
                                  <<SymbolResolver("${workspaceFolder}", "/own")>>, TRUE)
      [] c = "c1" /\ n = "propB" ->
            ConfigurationProperty("propB", "restart", Str(<<"d">>),
                                  <<SymbolResolver("${x}", "42")>>, FALSE)
      [] OTHER ->
            ConfigurationProperty("propA", "hot", Zero, <<>>, TRUE)

UnknownProperty == "Could not find a property with name"
NotEventSource == "Property is not of base type EventSource"

\* isEventSource (event.ts:36-38): obj.handler instanceof Map.  The Map of
\* an EventSource is its field `handlers`; a field the object does not have
\* reads undefined, which is no instance of Map.
isEventSource(obj) == "handler" \in DOMAIN obj

\* getPropertyIdentifier with the kinds swapped.
getPropertyIdentifierSwapped(c, p, kind) ==
    IF kind = "long" THEN p.name ELSE configurationName(c) \o "." \o p.name

\* getPropertyIdentifier (config.ts:138-140)
getPropertyIdentifier(c, p, kind) ==
    IF kind = "long" THEN configurationName(c) \o "." \o p.name ELSE p.name

\* get vscodeConfig (config.ts:142-144): the host's configuration section
\* configurationName for the Configuration's workspace folder.
vscodeConfig(c, host) == host[workspaceFolder(c)]

\* configChange.affectsConfiguration(section, scope) of the host's event.
affectsConfiguration(affected, section, scope) == <<section, scope>> \in affected

\* getProperties (config.ts:116-124): "" is the filter left undefined.
getProperties(c, props, filter) ==
    SelectSeq(Registry(c), LAMBDA n : filter = "" \/ filter = props[<<c, n>>].group)

\* The state a Configuration method works on: the property objects, the
\* uuid counter, and what the call has done so far.
Work(props, nextId) ==
    [props |-> props, uuid |-> nextId, fired |-> <<>>, reloaded |-> {},
     thrown |-> FALSE]

Tagged(c, n, calls) == [i \in DOMAIN calls |-> <<c, n, calls[i][1], calls[i][2]>>]

\* property.reload(this.vscodeConfig) for property n of Configuration c.
ReloadProperty(c, n, w, host) ==
    LET r == reload(w.props[<<c, n>>], vscodeConfig(c, host)[n], w.uuid)
    IN  [props |-> [w.props EXCEPT ![<<c, n>>] = r.prop],
         uuid |-> r.uuid,
         fired |-> w.fired \o Tagged(c, n, r.calls),
         reloaded |-> w.reloaded \cup {<<c, n>>},
         thrown |-> w.thrown \/ r.thrown]

\* The change listener run for every property, affected or not.
refreshPropertyAlways(c, n, w, host, affected) ==
    ReloadProperty(c, n, w, host)

\* refreshPropertyIfChanged (config.ts:84-90)
refreshPropertyIfChanged(c, n, w, host, affected) ==
    IF affectsConfiguration(affected,
           getPropertyIdentifier(c, w.props[<<c, n>>], "long"), workspaceFolder(c))
    THEN ReloadProperty(c, n, w, host)
    ELSE w

\* The listener of onDidChangeConfiguration (config.ts:83-92):
\* this.getProperties().forEach(refreshPropertyIfChanged)
RECURSIVE onDidChangeConfiguration(_, _, _, _, _)
onDidChangeConfiguration(c, names, w, host, affected) ==
    IF names = <<>> THEN w
    ELSE onDidChangeConfiguration(c, Tail(names),
             refreshPropertyIfChanged(c, Head(names), w, host, affected),
             host, affected)

\* Configuration.reload (config.ts:103-105)
RECURSIVE reloadAll(_, _, _, _)
reloadAll(c, names, w, host) ==
    IF names = <<>> THEN w
    ELSE reloadAll(c, Tail(names), ReloadProperty(c, Head(names), w, host), host)

\* vscode.workspace.onDidChangeConfiguration(listener) as the constructor
\* calls it (config.ts:82-93): the host appends the listener of c.
subscribeListener(listeners, c) == Append(listeners, c)

\* The host delivers one change event to its listeners, in the order they
\* subscribed.
RECURSIVE fireDidChangeConfiguration(_, _, _, _, _)
fireDidChangeConfiguration(cs, built, w, host, affected) ==
    IF cs = <<>> THEN w
    ELSE fireDidChangeConfiguration(Tail(cs), built,
             IF built[Head(cs)]
             THEN onDidChangeConfiguration(Head(cs),
                      getProperties(Head(cs), w.props, ""), w, host, affected)
             ELSE w,
             host, affected)

\* getProperty (config.ts:112-114): found is FALSE for undefined.
getProperty(c, props, name) ==
    IF name \in Names(c)
    THEN [found |-> TRUE, prop |-> props[<<c, name>>]]
    ELSE [found |-> FALSE, prop |-> Undefined]

\* resolveValue with the property's resolvers ahead of the registry's.
resolveValueOwnFirst(c, value, propResolvers) ==
    resolveSymbols(value, propResolvers \o symbolResolvers(c))

\* resolveValue (config.ts:146-148)
resolveValue(c, value, propResolvers) ==
    resolveSymbols(value, symbolResolvers(c) \o propResolvers)

\* getResolvedPropertyValue (config.ts:107-110)
getResolvedPropertyValue(c, props, name, host, nextId) ==
    LET p == getProperty(c, props, name)
    IN  IF p.found
        THEN LET r == get(p.prop, vscodeConfig(c, host)[name], nextId)
             IN  [props |-> [props EXCEPT ![<<c, name>>] = r.prop],
                  uuid |-> r.uuid, calls |-> r.calls, got |-> r.ret,
                  ret |-> resolveValue(c, r.ret, p.prop.symbolResolvers),
                  thrown |-> r.thrown]
        ELSE [props |-> props, uuid |-> nextId, calls |-> <<>>,
              got |-> Undefined, ret |-> Undefined, thrown |-> FALSE]

\* subscribeToProperty that hands an unknown name a disposer of nothing.
subscribeToPropertyLenient(c, props, name, nextId) ==
    LET p == getProperty(c, props, name)
    IN  IF ~p.found
        THEN [props |-> props, uuid |-> nextId, registered |-> 0, thrown |-> "ok"]
        ELSE IF ~isEventSource(p.prop)
        THEN [props |-> props, uuid |-> nextId, registered |-> 0,
              thrown |-> NotEventSource]
        ELSE LET r == register(p.prop.handlers, nextId, "log", 0)
             IN  [props |-> [props EXCEPT ![<<c, name>>].handlers = r.handlers],
                  uuid |-> nextId + 1, registered |-> nextId,
                  thrown |-> IF r.thrown THEN "throw" ELSE "ok"]

\* subscribeToProperty (config.ts:126-136)
subscribeToProperty(c, props, name, nextId) ==
    LET p == getProperty(c, props, name)
    IN  IF ~p.found
        THEN [props |-> props, uuid |-> nextId, registered |-> 0,
              thrown |-> UnknownProperty]
        ELSE IF ~isEventSource(p.prop)
        THEN [props |-> props, uuid |-> nextId, registered |-> 0,
              thrown |-> NotEventSource]
        ELSE LET r == register(p.prop.handlers, nextId, "log", 0)
             IN  [props |-> [props EXCEPT ![<<c, name>>].handlers = r.handlers],
                  uuid |-> nextId + 1, registered |-> nextId,
                  thrown |-> IF r.thrown THEN "throw" ELSE "ok"]

(***************************************************************************)
(* SelectiveLogger (logger.ts:54-86) over a core logger.  A core logger is *)
(* its enabled flag and the lines it has been handed, each the method      *)
(* called and the message.                                                 *)
(***************************************************************************)
LogLevelDebug == "debug"
LogLevelInfo == "info"
LogLevelWarning == "warning"
LogLevelError == "error"

LogLevel == {LogLevelDebug, LogLevelInfo, LogLevelWarning, LogLevelError}

\* new DefaultLogger() (logger.ts:27-46)
DefaultLogger == [enabled |-> TRUE, lines |-> <<>>]

\* A LoggerI (logger.ts:15-22) whose enabled flag is false.
DisabledLogger == [enabled |-> FALSE, lines |-> <<>>]

\* core.debug / info / warn / error (message): the core logger's own methods.
CoreCall(core, method, message) ==
    [core EXCEPT !.lines = Append(@, <<method, message>>)]

\* new SelectiveLogger(core, level) (logger.ts:57)
SelectiveLogger(core, level) == [core |-> core, level |-> level]

\* setCoreLogger (logger.ts:59-61)
setCoreLogger(l, core) == [l EXCEPT !.core = core]

\* get enabled (logger.ts:63-65)
enabled(l) == l.core.enabled

\* debug (logger.ts:67-69)
debug(l, message) ==
    IF enabled(l) /\ l.level = LogLevelDebug
    THEN [l EXCEPT !.core = CoreCall(@, "debug", message)]
    ELSE l

\* info that forwards at level info only.
infoAtInfoOnly(l, message) ==
    IF enabled(l) /\ l.level = LogLevelInfo
    THEN [l EXCEPT !.core = CoreCall(@, "info", message)]
    ELSE l

\* info (logger.ts:71-73): && binds tighter than ||.
info(l, message) ==
    IF (enabled(l) /\ l.level = LogLevelDebug) \/ l.level = LogLevelInfo
    THEN [l EXCEPT !.core = CoreCall(@, "info", message)]
    ELSE l

\* warn (logger.ts:75-77)
warn(l, message) ==
    IF enabled(l) /\ l.level # LogLevelError
    THEN [l EXCEPT !.core = CoreCall(@, "warn", message)]
    ELSE l

\* error (logger.ts:79-81)
error(l, message) ==
    IF enabled(l)
    THEN [l EXCEPT !.core = CoreCall(@, "error", message)]
    ELSE l

\* log(message, logger, level) (logger.ts:88-107)
log(message, l, level) ==
    CASE level = LogLevelDebug -> debug(l, message)
      [] level = LogLevelInfo -> info(l, message)
      [] level = LogLevelWarning -> warn(l, message)
      [] level = LogLevelError -> error(l, message)

\* cfgOp before any call.
NoCall ==
    [op |-> "none", cfg |-> "", name |-> "", affected |-> {}, reloaded |-> {},
     fired |-> <<>>, found |-> FALSE, before |-> Undefined, got |-> Undefined,
     ret |-> Undefined, registered |-> 0]

\* The parts a specification leaves out hold nothing.
NoConfiguration ==
    /\ cfgRaw = <<>>
    /\ cfgProps = <<>>
    /\ cfgBuilt = <<>>
    /\ cfgListeners = <<>>
    /\ cfgOp = <<>>

NoProperty ==
    /\ prop = <<>>
    /\ raw = <<>>
    /\ rawValues = {}
    /\ pHist = <<>>

NoLogger ==
    /\ logger = <<>>
    /\ logOp = <<>>

NoPassSteps ==
    /\ nfMap = <<>>
    /\ nfPass = <<>>

NoEventSource ==
    /\ esHandlers = <<>>
    /\ esOp = <<>>
    /\ esPass = <<>>

(***************************************************************************)
(* SpecEvent: one EventSource and its callers.                             *)
(***************************************************************************)
EventValues == {Str(<<"a">>), Str(<<"b">>)}

NoPass == [done |-> FALSE, value |-> Undefined, start |-> {}, end |-> {},
           calls |-> <<>>, thrown |-> FALSE, redundant |-> 0]

\* The id of the call esOp when it removed a handler that was not registered.
Redundant(o) == IF o.op \in {"unregister", "dispose"} /\ ~o.was THEN o.id ELSE 0

NoOp == [op |-> "none", id |-> 0, was |-> FALSE]

InitEvent ==
    /\ uuid = 1
    /\ NoLogger
    /\ NoPassSteps
    /\ outcome = "ok"
    /\ esHandlers = <<>>
    /\ esOp = NoOp
    /\ esPass = NoPass
    /\ NoProperty
    /\ NoConfiguration

EsRegister(kind, target) ==
    /\ (kind = "unregister") = (target # 0)
    /\ uuid <= MaxIds
    /\ Len(esHandlers) < MaxHandlers
    /\ LET r == register(esHandlers, uuid, kind, target)
       IN  /\ esHandlers' = r.handlers
           /\ outcome' = IF r.thrown THEN "throw" ELSE "ok"
    /\ esOp' = [op |-> "register", id |-> uuid, was |-> FALSE]
    /\ uuid' = uuid + 1
    /\ UNCHANGED <<esPass, propVars, cfgVars, logVars, nfVars>>

EsUnregister(id) ==
    /\ LET r == unregister(esHandlers, id, FALSE)
       IN  /\ esHandlers' = r.handlers
           /\ outcome' = IF r.thrown THEN "throw" ELSE "ok"
    /\ esOp' = [op |-> "unregister", id |-> id, was |-> id \in LiveIds(esHandlers)]
    /\ UNCHANGED <<uuid, esPass, propVars, cfgVars, logVars, nfVars>>

\* Only a token that register returned can be disposed.
EsDispose(id) ==
    /\ id < uuid
    /\ LET r == dispose(esHandlers, id, FALSE)
       IN  /\ esHandlers' = r.handlers
           /\ outcome' = IF r.thrown THEN "throw" ELSE "ok"
    /\ esOp' = [op |-> "dispose", id |-> id, was |-> id \in LiveIds(esHandlers)]
    /\ UNCHANGED <<uuid, esPass, propVars, cfgVars, logVars, nfVars>>

EsNotify(value) ==
    /\ uuid + Registering(esHandlers) <= MaxIds + 1
    /\ Len(esHandlers) + Registering(esHandlers) <= MaxHandlers
    /\ LET r == notify(esHandlers, uuid, value)
       IN  /\ esHandlers' = r.handlers
           /\ uuid' = r.uuid
           /\ outcome' = IF r.thrown THEN "throw" ELSE "ok"
           /\ esPass' = [done |-> TRUE, value |-> value,
                         start |-> LiveIds(esHandlers),
                         end |-> LiveIds(r.handlers),
                         calls |-> r.calls, thrown |-> r.thrown,
                         redundant |-> Redundant(esOp)]
    /\ esOp' = [op |-> "notify", id |-> 0, was |-> FALSE]
    /\ UNCHANGED <<propVars, cfgVars, logVars, nfVars>>

NextEvent ==
    \/ \E k \in HandlerKinds, t \in 0..MaxIds : EsRegister(k, t)
    \/ \E id \in 1..MaxIds : EsUnregister(id)
    \/ \E id \in 1..MaxIds : EsDispose(id)
    \/ \E v \in EventValues : EsNotify(v)

SpecEvent == InitEvent /\ [][NextEvent]_vars

(***************************************************************************)
(* Claims about EventSource, checked under SpecEvent.                      *)
(***************************************************************************)
\* Position of the first call of handler id in a pass's calls, 0 when none.
FirstCall(calls, id) ==
    IF Count(calls, id) = 0 THEN 0
    ELSE CHOOSE i \in DOMAIN calls :
            /\ calls[i][1] = id
            /\ \A j \in DOMAIN calls : calls[j][1] = id => i <= j

\* C9: in one notify(value) pass every handler registered when the pass
\* starts and still registered when it ends is invoked exactly once, with
\* value; handlers unregistering themselves or others during the pass do
\* not make notify raise.
C9_NotifyOncePerRegisteredHandler ==
    esPass.done =>
        /\ ~esPass.thrown
        /\ \A id \in esPass.start \cap esPass.end : Count(esPass.calls, id) = 1
        /\ \A i \in DOMAIN esPass.calls : esPass.calls[i][2] = esPass.value

\* A pass in which a handler removed itself and a handler registered after
\* it, still registered at the end, was invoked after it.
C9_Witness ==
    /\ esPass.done
    /\ \E gone \in esPass.start \ esPass.end, kept \in esPass.start \cap esPass.end :
          /\ FirstCall(esPass.calls, gone) > 0
          /\ FirstCall(esPass.calls, kept) > FirstCall(esPass.calls, gone)

\* C10: unregister(id) or dispose of the token of a handler that is not
\* registered (any more) never raises and leaves the handlers as they are;
\* the notify that follows invokes each registered handler exactly once.
C10_RedundantUnregisterIsNoOp ==
    /\ [][Redundant(esOp') # 0 => (esHandlers' = esHandlers /\ outcome' = "ok")]_vars
    /\ [](esPass.done /\ esPass.redundant # 0 =>
            \A id \in esPass.start \cap esPass.end : Count(esPass.calls, id) = 1)

\* A notify pass over a registered handler, run right after the token of an
\* id that register had issued was disposed or unregistered once more.
C10_Witness ==
    /\ esPass.done
    /\ esPass.redundant \in 1..(uuid - 1)
    /\ esPass.redundant \notin esPass.start
    /\ esPass.calls # <<>>


(***************************************************************************)
(* SpecProperty: one ConfigurationProperty, constructed cached or not and  *)
(* with or without a default, its observers, and a raw source whose entry  *)
(* for the property's name moves among the values of rawValues.  The two   *)
(* objects of PropValues are two instances of one content, as two reads of *)
(* one unchanged object-valued setting return them.                        *)
(***************************************************************************)
PropValues ==
    {Undefined, Null, False, Zero, EmptyStr, Str(<<"a">>), Obj("#1"), Obj("#2")}

PropDefaults == {Undefined, Zero, Str(<<"a">>)}

InitProperty ==
    /\ uuid = 1
    /\ NoLogger
    /\ NoPassSteps
    /\ outcome = "ok"
    /\ NoEventSource
    /\ rawValues \in {S \in SUBSET PropValues : Cardinality(S) \in 1..2}
    /\ raw \in rawValues
    /\ \E d \in PropDefaults, c \in BOOLEAN :
          prop = ConfigurationProperty("propA", "hot", d, <<>>, c)
    /\ pHist = <<>>
    /\ NoConfiguration

\* The host changes the entry (or removes it: Undefined).
PropSetRaw(v) ==
    /\ v \in rawValues
    /\ v # raw
    /\ raw' = v
    /\ UNCHANGED <<uuid, outcome, esVars, prop, rawValues, pHist, cfgVars, logVars, nfVars>>

\* An observer registers a handler on the property (it is an EventSource);
\* the observers are in place before the calls that pHist follows.
PropRegister ==
    /\ pHist = <<>>
    /\ uuid <= MaxIds
    /\ Len(prop.handlers) < MaxHandlers
    /\ LET r == register(prop.handlers, uuid, "log", 0)
       IN  /\ prop' = [prop EXCEPT !.handlers = r.handlers]
           /\ outcome' = IF r.thrown THEN "throw" ELSE "ok"
    /\ uuid' = uuid + 1
    /\ UNCHANGED <<esVars, raw, rawValues, pHist, cfgVars, logVars, nfVars>>

\* What pHist keeps of a call: r is the call's result.
Called(op, r) ==
    [op |-> op, found |-> raw, before |-> prop.value, validBefore |-> prop.valid,
     ids |-> LiveIds(prop.handlers),
     reads |-> r.reads, ret |-> r.ret, calls |-> r.calls,
     value |-> r.prop.value, valid |-> r.prop.valid, seen |-> r.seen]

PropReload ==
    /\ Len(pHist) < MaxCalls
    /\ LET r == reload(prop, raw, uuid)
       IN  /\ prop' = r.prop
           /\ uuid' = r.uuid
           /\ outcome' = IF r.thrown THEN "throw" ELSE "ok"
           /\ pHist' = Append(pHist, Called("reload", r))
    /\ UNCHANGED <<esVars, raw, rawValues, cfgVars, logVars, nfVars>>

PropGet ==
    /\ Len(pHist) < MaxCalls
    /\ LET r == get(prop, raw, uuid)
       IN  /\ prop' = r.prop
           /\ uuid' = r.uuid
           /\ outcome' = IF r.thrown THEN "throw" ELSE "ok"
           /\ pHist' = Append(pHist, Called("get", r))
    /\ UNCHANGED <<esVars, raw, rawValues, cfgVars, logVars, nfVars>>

NextProperty ==
    \/ \E v \in PropValues : PropSetRaw(v)
    \/ PropRegister
    \/ PropReload
    \/ PropGet

SpecProperty == InitProperty /\ [][NextProperty]_vars

ReloadsAAB ==
    /\ prop.cached
    /\ Len(pHist) >= 3
    /\ \A i \in 1..3 : pHist[i].op = "reload"
    /\ pHist[2].value = pHist[1].value
    /\ pHist[3].value # pHist[1].value

\* Every call of handler h in call i of pHist carries the value read there.
CarriesRead(i, h) ==
    \A k \in DOMAIN pHist[i].calls :
        pHist[i].calls[k][1] = h => pHist[i].calls[k][2] = pHist[i].value

C6_CachedGetIsPure ==
    \A i \in DOMAIN pHist :
        (prop.cached /\ pHist[i].op = "get") =>
            /\ pHist[i].reads = 0
            /\ pHist[i].calls = <<>>
            /\ pHist[i].value = pHist[i].before
            /\ pHist[i].valid = pHist[i].validBefore
            /\ pHist[i].ret = pHist[i].before
            /\ pHist[i].ret = (IF i = 1 THEN prop.defaultValue ELSE pHist[i - 1].value)

\* A get on a cached property, after a reload, made while the raw source
\* holds another value than the reload stored, with a handler registered.
C6_Witness ==
    \E i \in 2..Len(pHist) :
        /\ prop.cached
        /\ pHist[i - 1].op = "reload"
        /\ pHist[i].op = "get"
        /\ pHist[i].ids # {}
        /\ pHist[i].found # Undefined
        /\ ~LooseEq(pHist[i].found, pHist[i].ret)

\* An effective re-read: a call that read the raw source.
Reread(i) == pHist[i].reads = 1

\* C11 as claimed: a re-read that finds no entry for the property's name
\* does not raise and stores the default the property was constructed
\* with, whatever that default is; with no default (defaultValue is
\* undefined) it stores undefined.
C11_MissingEntryStoresDefault ==
    /\ outcome = "ok"
    /\ \A i \in DOMAIN pHist :
          (Reread(i) /\ pHist[i].found = Undefined)
              => pHist[i].value = prop.defaultValue

\* Equal in content: the same primitive, or two instances of the object.
SameContent(a, b) == a = b \/ (a.t = "object" /\ b.t = "object")

\* C12 as claimed: valid is validator(value) from construction on and after
\* every reload and get; no call raises; and a value the validator rejects
\* is stored by the re-read that reads it, returned by get, and, when it is
\* another value than the one stored before, notified once to every
\* registered handler.
C12_ValidTracksValue ==
    /\ isValid(prop) = validator(prop.value)
    /\ outcome = "ok"
    /\ \A i \in DOMAIN pHist :
          /\ pHist[i].valid = validator(pHist[i].value)
          /\ pHist[i].validBefore = validator(pHist[i].before)
          /\ (Reread(i) /\ pHist[i].found # Undefined)
                => pHist[i].value = pHist[i].found
          /\ pHist[i].op = "get" => pHist[i].ret = pHist[i].value
          /\ ( /\ Reread(i)
               /\ ~validator(pHist[i].value)
               /\ ~SameContent(pHist[i].before, pHist[i].value) )
                => \A h \in pHist[i].ids :
                      /\ Count(pHist[i].calls, h) = 1
                      /\ CarriesRead(i, h)

\* C16 as claimed: a re-read that returns a structured value equal in
\* content to the stored value, the same instance or a distinct one,
\* invokes no handler.
C16_EqualContentIsUnchanged ==
    \A i \in DOMAIN pHist :
        ( /\ Reread(i)
          /\ pHist[i].before.t = "object"
          /\ SameContent(pHist[i].before, pHist[i].value) )
        => pHist[i].calls = <<>>

\* The primitive values of the value domain.
Primitive(v) == v.t \in {"string", "number", "boolean", "null", "undefined"}

\* C17 as claimed: a re-read that reads a primitive value other than the
\* stored primitive value, of the same type or of another, invokes every
\* registered handler exactly once, with the value read.
C17_DistinctValueNotifies ==
    \A i \in DOMAIN pHist :
        ( /\ Reread(i)
          /\ Primitive(pHist[i].before)
          /\ Primitive(pHist[i].value)
          /\ pHist[i].value # pHist[i].before )
        => \A h \in pHist[i].ids :
              /\ Count(pHist[i].calls, h) = 1
              /\ CarriesRead(i, h)

MaxAffected == 1     \* (section, scope) pairs one change event reports

CfgValues == {Undefined, Str(<<"${workspaceFolder}", "/", "${x}">>)}

EventSections == {"myExt.propA", "myExt.propB", "propA", "otherExt.propA"}

\* The events the host can deliver: what affectsConfiguration answers TRUE to.
ChangeEvents ==
    {a \in SUBSET (EventSections \X WorkspaceFolders) : Cardinality(a) <= MaxAffected}

LookupNames == {"propA", "propB", "doesNotExist"}

Observed(o, id) ==
    [NewProperty(o[1], o[2]) EXCEPT
        !.handlers = register(<<>>, id, "log", 0).handlers]

InitConfig ==
    /\ uuid = 4
    /\ NoLogger
    /\ NoPassSteps
    /\ outcome = "ok"
    /\ NoEventSource
    /\ NoProperty
    /\ cfgRaw = [f \in WorkspaceFolders |-> [n \in {"propA", "propB"} |-> Undefined]]
    /\ cfgProps = [o \in Owned |->
                     Observed(o, CASE o = <<"c1", "propA">> -> 1
                                   [] o = <<"c1", "propB">> -> 2
                                   [] OTHER -> 3)]
    /\ cfgBuilt = [c \in ConfigIds |-> FALSE]
    /\ cfgListeners = <<>>
    /\ cfgOp = NoCall

Outcome(thrown) == IF thrown THEN "throw" ELSE "ok"

\* The host's configuration entry (f, n) changes; no event is delivered yet.
CfgSetRaw(f, n, v) ==
    /\ \E c \in ConfigIds : workspaceFolder(c) = f /\ n \in Names(c)
    /\ cfgRaw[f][n] # v
    /\ cfgRaw' = [cfgRaw EXCEPT ![f][n] = v]
    /\ cfgOp' = [NoCall EXCEPT !.op = "hostChange", !.name = n]
    /\ outcome' = "ok"
    /\ UNCHANGED <<uuid, esVars, propVars, cfgProps, cfgBuilt, cfgListeners, logVars, nfVars>>

\* new Configuration(configurationName, workspaceFolder, properties)
\* (config.ts:71-97): subscribes the change listener, then reload().
CfgConstruct(c) ==
    /\ ~cfgBuilt[c]
    /\ cfgBuilt' = [cfgBuilt EXCEPT ![c] = TRUE]
    /\ cfgListeners' = subscribeListener(cfgListeners, c)
    /\ LET w == reloadAll(c, Registry(c), Work(cfgProps, uuid), cfgRaw)
       IN  /\ cfgProps' = w.props
           /\ uuid' = w.uuid
           /\ outcome' = Outcome(w.thrown)
           /\ cfgOp' = [NoCall EXCEPT !.op = "construct", !.cfg = c,
                                      !.reloaded = w.reloaded, !.fired = w.fired]
    /\ UNCHANGED <<esVars, propVars, cfgRaw, logVars, nfVars>>

\* The host fires onDidChangeConfiguration with an event that answers
\* affectsConfiguration(section, scope) with TRUE for the pairs of affected.
CfgChangeEvent(affected) ==
    /\ LET w == fireDidChangeConfiguration(cfgListeners, cfgBuilt,
                                           Work(cfgProps, uuid), cfgRaw, affected)
       IN  /\ cfgProps' = w.props
           /\ uuid' = w.uuid
           /\ outcome' = Outcome(w.thrown)
           /\ cfgOp' = [NoCall EXCEPT !.op = "event", !.affected = affected,
                                      !.reloaded = w.reloaded, !.fired = w.fired]
    /\ UNCHANGED <<esVars, propVars, cfgRaw, cfgBuilt, cfgListeners, logVars, nfVars>>

CfgReload(c) ==
    /\ cfgBuilt[c]
    /\ LET w == reloadAll(c, Registry(c), Work(cfgProps, uuid), cfgRaw)
       IN  /\ cfgProps' = w.props
           /\ uuid' = w.uuid
           /\ outcome' = Outcome(w.thrown)
           /\ cfgOp' = [NoCall EXCEPT !.op = "reload", !.cfg = c,
                                      !.reloaded = w.reloaded, !.fired = w.fired]
    /\ UNCHANGED <<esVars, propVars, cfgRaw, cfgBuilt, cfgListeners, logVars, nfVars>>

CfgGetProperty(c, name) ==
    /\ cfgBuilt[c]
    /\ LET p == getProperty(c, cfgProps, name)
       IN  cfgOp' = [NoCall EXCEPT !.op = "getProperty", !.cfg = c, !.name = name,
                                   !.found = p.found]
    /\ outcome' = "ok"
    /\ UNCHANGED <<uuid, esVars, propVars, cfgRaw, cfgProps, cfgBuilt, cfgListeners, logVars, nfVars>>

\* A caller that holds the property calls get on it with the Configuration's
\* vscodeConfig.
CfgPropertyGet(c, n) ==
    /\ cfgBuilt[c]
    /\ n \in Names(c)
    /\ LET r == get(cfgProps[<<c, n>>], vscodeConfig(c, cfgRaw)[n], uuid)
       IN  /\ cfgProps' = [cfgProps EXCEPT ![<<c, n>>] = r.prop]
           /\ uuid' = r.uuid
           /\ outcome' = Outcome(r.thrown)
           /\ cfgOp' = [NoCall EXCEPT !.op = "get", !.cfg = c, !.name = n,
                                      !.found = TRUE,
                                      !.before = cfgProps[<<c, n>>].value,
                                      !.fired = Tagged(c, n, r.calls),
                                      !.got = r.ret, !.ret = r.ret]
    /\ UNCHANGED <<esVars, propVars, cfgRaw, cfgBuilt, cfgListeners, logVars, nfVars>>

CfgGetResolvedPropertyValue(c, name) ==
    /\ cfgBuilt[c]
    /\ LET r == getResolvedPropertyValue(c, cfgProps, name, cfgRaw, uuid)
       IN  /\ cfgProps' = r.props
           /\ uuid' = r.uuid
           /\ outcome' = Outcome(r.thrown)
           /\ cfgOp' = [NoCall EXCEPT !.op = "getResolved", !.cfg = c, !.name = name,
                                      !.found = name \in Names(c),
                                      !.before = IF name \in Names(c)
                                                 THEN cfgProps[<<c, name>>].value
                                                 ELSE Undefined,
                                      !.fired = Tagged(c, name, r.calls),
                                      !.got = r.got, !.ret = r.ret]
    /\ UNCHANGED <<esVars, propVars, cfgRaw, cfgBuilt, cfgListeners, logVars, nfVars>>

CfgSubscribeToProperty(c, name) ==
    /\ cfgBuilt[c]
    /\ name \in Names(c) => Len(cfgProps[<<c, name>>].handlers) < MaxHandlers
    /\ LET r == subscribeToProperty(c, cfgProps, name, uuid)
       IN  /\ cfgProps' = r.props
           /\ uuid' = r.uuid
           /\ outcome' = r.thrown
           /\ cfgOp' = [NoCall EXCEPT !.op = "subscribe", !.cfg = c, !.name = name,
                                      !.found = name \in Names(c),
                                      !.registered = r.registered]
    /\ UNCHANGED <<esVars, propVars, cfgRaw, cfgBuilt, cfgListeners, logVars, nfVars>>

NextConfig ==
    \/ \E f \in WorkspaceFolders, n \in {"propA", "propB"}, v \in CfgValues :
          CfgSetRaw(f, n, v)
    \/ \E c \in ConfigIds : CfgConstruct(c)
    \/ \E affected \in ChangeEvents : CfgChangeEvent(affected)
    \/ \E c \in ConfigIds : CfgReload(c)
    \/ \E c \in ConfigIds, name \in LookupNames : CfgGetProperty(c, name)
    \/ \E c \in ConfigIds, n \in {"propA", "propB"} : CfgPropertyGet(c, n)
    \/ \E c \in ConfigIds, name \in LookupNames : CfgGetResolvedPropertyValue(c, name)
    \/ \E c \in ConfigIds, name \in LookupNames : CfgSubscribeToProperty(c, name)

SpecConfig == InitConfig /\ [][NextConfig]_vars

(***************************************************************************)
(* Claims about Configuration, checked under SpecConfig.                   *)
(***************************************************************************)
\* The calls handler observers of property o received in the last call.
FiredOn(op, o) == {i \in DOMAIN op.fired : <<op.fired[i][1], op.fired[i][2]>> = o}

\* C3: subscribeToProperty(name, handler) with a name of the registry
\* succeeds without raising and registers handler on that property's
\* EventSource.
C3_SubscribeKnownSucceeds ==
    (cfgOp.op = "subscribe" /\ cfgOp.name \in Names(cfgOp.cfg)) =>
        /\ outcome = "ok"
        /\ cfgOp.registered \in LiveIds(cfgProps[<<cfgOp.cfg, cfgOp.name>>].handlers)

\* The owned properties of constructed Configurations whose qualified name
\* "<configurationName>.<propertyName>" an event reports affected for the
\* Configuration's own workspace folder.
ReportedAffected(affected) ==
    {o \in Owned :
        /\ cfgBuilt[o[1]]
        /\ <<"myExt." \o o[2], workspaceFolder(o[1])>> \in affected}

\* C4: a change event makes a Configuration call reload on exactly its
\* properties whose qualified name the event reports affected for its own
\* workspace; every other property, of that or of another Configuration,
\* keeps value, valid and handlers and receives no notification.
C4_ScopedDispatch ==
    /\ [](cfgOp.op = "event" => cfgOp.reloaded = ReportedAffected(cfgOp.affected))
    /\ [][cfgOp'.op = "event" =>
            \A o \in Owned \ ReportedAffected(cfgOp'.affected) :
                /\ cfgProps'[o] = cfgProps[o]
                /\ FiredOn(cfgOp', o) = {}]_vars

\* An event affecting myExt.propA in /ws1 has reloaded c1's cached propA
\* and notified its observer, while c2's cached propA, whose raw entry in
\* /ws2 has changed as well, still stores its old value.
C4_Witness ==
    /\ cfgOp.op = "event"
    /\ cfgOp.affected = {<<"myExt.propA", "/ws1">>}
    /\ cfgBuilt["c1"] /\ cfgBuilt["c2"]
    /\ cfgOp.reloaded = {<<"c1", "propA">>}
    /\ FiredOn(cfgOp, <<"c1", "propA">>) # {}
    /\ cfgRaw["/ws2"]["propA"] # Undefined
    /\ cfgProps[<<"c2", "propA">>].value # cfgRaw["/ws2"]["propA"]

\* C5: get on an uncached property returns what the raw source holds for
\* its name at the time of the call (with no entry: undefined or the
\* default), whatever happened since the previous get.
C5_UncachedGetIsFresh ==
    ( /\ cfgOp.op \in {"get", "getResolved"}
      /\ cfgOp.found
      /\ ~cfgProps[<<cfgOp.cfg, cfgOp.name>>].cached ) =>
        LET entry == cfgRaw[workspaceFolder(cfgOp.cfg)][cfgOp.name]
        IN  /\ entry # Undefined => cfgOp.got = entry
            /\ entry = Undefined =>
                 cfgOp.got \in {Undefined, cfgProps[<<cfgOp.cfg, cfgOp.name>>].defaultValue}
            /\ outcome = "ok"

\* A get of the uncached propB that found another value in the source than
\* the property stored before the call, and returned it.
C5_Witness ==
    /\ cfgOp.op = "get"
    /\ cfgOp.name = "propB"
    /\ cfgRaw["/ws1"]["propB"] # Undefined
    /\ cfgOp.before # cfgOp.got
    /\ cfgOp.got = cfgRaw["/ws1"]["propB"]

\* C7: a step that is no get of an uncached property (a host change, a
\* construction, a reload(), a change event, a lookup, a get of another
\* property) leaves its value and valid as they are and invokes none of its
\* handlers.
C7_UncachedNotifiesOnlyInGet ==
    [][\A o \in Owned :
          ( /\ ~cfgProps[o].cached
            /\ ~( /\ cfgOp'.op \in {"get", "getResolved"}
                  /\ <<cfgOp'.cfg, cfgOp'.name>> = o ) ) =>
              /\ cfgProps'[o].value = cfgProps[o].value
              /\ cfgProps'[o].valid = cfgProps[o].valid
              /\ FiredOn(cfgOp', o) = {}]_vars

\* A change event reporting myExt.propB affected has called reload on the
\* uncached propB while the source holds an entry the property never read.
C7_Witness ==
    /\ cfgOp.op = "event"
    /\ <<"c1", "propB">> \in cfgOp.reloaded
    /\ cfgRaw["/ws1"]["propB"] # Undefined
    /\ cfgProps[<<"c1", "propB">>].value = cfgProps[<<"c1", "propB">>].defaultValue
    /\ cfgOp.fired = <<>>

\* C8: for a name that is not in the registry, getProperty and
\* getResolvedPropertyValue return undefined without raising, and
\* subscribeToProperty throws the unknown-property error, registers no
\* handler and leaves the properties and the registry as they are.
C8_UnknownNameSafety ==
    /\ []( (cfgOp.op \in {"getProperty", "getResolved", "subscribe"}
             /\ cfgOp.name \notin Names(cfgOp.cfg)) =>
            /\ ~cfgOp.found
            /\ cfgOp.ret = Undefined
            /\ cfgOp.registered = 0
            /\ outcome = (IF cfgOp.op = "subscribe" THEN UnknownProperty ELSE "ok") )
    /\ [][(cfgOp'.op \in {"getProperty", "getResolved", "subscribe"}
             /\ cfgOp'.name \notin Names(cfgOp'.cfg)) =>
            /\ cfgProps' = cfgProps
            /\ cfgBuilt' = cfgBuilt
            /\ cfgRaw' = cfgRaw
            /\ uuid' = uuid]_vars

\* subscribeToProperty("doesNotExist") has thrown on a constructed
\* Configuration.
C8_Witness ==
    /\ cfgOp.op = "subscribe"
    /\ cfgOp.name = "doesNotExist"
    /\ cfgBuilt[cfgOp.cfg]
    /\ outcome = UnknownProperty

\* C13: getResolvedPropertyValue(name) returns the value get returned,
\* resolved first through the whole chain of the registry and then through
\* the whole chain of the property, each resolver on the previous one's
\* output.
C13_RegistryResolversFirst ==
    (cfgOp.op = "getResolved" /\ cfgOp.found) =>
        cfgOp.ret =
            resolveSymbols(resolveSymbols(cfgOp.got, symbolResolvers(cfgOp.cfg)),
                           cfgProps[<<cfgOp.cfg, cfgOp.name>>].symbolResolvers)

\* getResolvedPropertyValue on a property whose own resolver rewrites the
\* placeholder of the registry's resolver: the registry's substitution is
\* the one in the result.
C13_Witness ==
    /\ cfgOp.op = "getResolved"
    /\ cfgOp.cfg = "c1"
    /\ cfgOp.name = "propA"
    /\ cfgOp.got = Str(<<"${workspaceFolder}", "/", "${x}">>)
    /\ cfgOp.ret = Str(<<"/ws1", "/", "${x}">>)

\* How often the listener of Configuration c is subscribed to the host.
Subscriptions(c) == Cardinality({i \in DOMAIN cfgListeners : cfgListeners[i] = c})

\* The raw source's entry for the name of property o.
RawEntry(o) == cfgRaw[workspaceFolder(o[1])][o[2]]

\* Property o is in step with the raw source: it holds the entry for its
\* name, or its default when there is no entry.
InStep(o) ==
    cfgProps[o].value =
        (IF RawEntry(o) # Undefined THEN RawEntry(o) ELSE cfgProps[o].defaultValue)

\* The cached properties of the constructed Configurations.
Cached == {o \in Owned : cfgBuilt[o[1]] /\ cfgProps[o].cached}

\* C14 as claimed: a constructed Configuration is subscribed exactly once to
\* the change stream; its constructor and its reload() call reload on every
\* owned property and leave every cached one in step with the raw source;
\* an event leaves every cached property it reports in step; and a cached
\* property in step stays in step for as long as its entry does not change.
C14_CachedValuesInStep ==
    /\ [] /\ \A c \in ConfigIds : Subscriptions(c) = (IF cfgBuilt[c] THEN 1 ELSE 0)
          /\ cfgOp.op \in {"construct", "reload"} =>
                /\ cfgOp.reloaded = {<<cfgOp.cfg, n>> : n \in Names(cfgOp.cfg)}
                /\ \A o \in Cached : o[1] = cfgOp.cfg => InStep(o)
          /\ cfgOp.op = "event" =>
                \A o \in Cached \cap ReportedAffected(cfgOp.affected) : InStep(o)
    /\ [][\A o \in Cached :
              (InStep(o) /\ cfgRaw'[workspaceFolder(o[1])][o[2]] = RawEntry(o))
                  => InStep(o)']_vars


(***************************************************************************)
(* SpecLogger: the SelectiveLogger singleton, constructed with its         *)
(* defaults, whose callers set its level, replace its core logger by a     *)
(* fresh enabled or disabled one, and log messages through log().          *)
(***************************************************************************)
Messages == {"m1", "m2"}

NoLog ==
    [op |-> "none", level |-> "", message |-> "", configured |-> "",
     enabled |-> FALSE, before |-> <<>>]

InitLogger ==
    /\ uuid = 1
    /\ outcome = "ok"
    /\ NoEventSource
    /\ NoProperty
    /\ NoConfiguration
    /\ NoPassSteps
    /\ logger = SelectiveLogger(DefaultLogger, LogLevelWarning)
    /\ logOp = NoLog

\* logger.level = level
LogSetLevel(level) ==
    /\ level # logger.level
    /\ logger' = [logger EXCEPT !.level = level]
    /\ logOp' = [NoLog EXCEPT !.op = "level"]
    /\ UNCHANGED <<uuid, outcome, esVars, propVars, cfgVars, nfVars>>

LogSetCoreLogger(core) ==
    /\ logger' = setCoreLogger(logger, core)
    /\ logOp' = [NoLog EXCEPT !.op = "core"]
    /\ UNCHANGED <<uuid, outcome, esVars, propVars, cfgVars, nfVars>>

LogMessage(level, message) ==
    /\ Len(logger.core.lines) < MaxLines
    /\ logger' = log(message, logger, level)
    /\ logOp' = [op |-> "log", level |-> level, message |-> message,
                 configured |-> logger.level, enabled |-> enabled(logger),
                 before |-> logger.core.lines]
    /\ UNCHANGED <<uuid, outcome, esVars, propVars, cfgVars, nfVars>>

NextLogger ==
    \/ \E level \in LogLevel : LogSetLevel(level)
    \/ \E core \in {DefaultLogger, DisabledLogger} : LogSetCoreLogger(core)
    \/ \E level \in LogLevel, message \in Messages : LogMessage(level, message)

SpecLogger == InitLogger /\ [][NextLogger]_vars

(***************************************************************************)
(* Claims about SelectiveLogger, checked under SpecLogger.                 *)
(***************************************************************************)
\* The order of the levels: debug < info < warning < error.
Rank(level) ==
    CASE level = LogLevelDebug -> 1
      [] level = LogLevelInfo -> 2
      [] level = LogLevelWarning -> 3
      [] level = LogLevelError -> 4

\* The core logger method log() reaches for a message level.
Method(level) == IF level = LogLevelWarning THEN "warn" ELSE level

\* The last call handed its message to the core logger, through the method
\* of the message's level.
Forwarded ==
    logger.core.lines = Append(logOp.before, <<Method(logOp.level), logOp.message>>)

\* C15: with an enabled core logger a message of any level, logged at any
\* configured level, reaches the core logger when its level is the
\* configured level or a higher one, and otherwise leaves the core logger
\* as it was.
C15_ForwardsSameOrHigherLevel ==
    (logOp.op = "log" /\ logOp.enabled) =>
        IF Rank(logOp.level) >= Rank(logOp.configured)
        THEN Forwarded
        ELSE logger.core.lines = logOp.before

\* The enabled core logger has received a warning logged at level info and
\* then not received an info message logged at level warning.
C15_Witness ==
    /\ logOp.op = "log"
    /\ logOp.enabled
    /\ logOp.level = LogLevelInfo
    /\ logOp.configured = LogLevelWarning
    /\ logOp.before = <<<<"warn", "m1">>>>
    /\ logger.core.lines = logOp.before

\* C20 as claimed: with a core logger whose enabled flag is false, no
\* message of any level, logged at any configured level, reaches the core
\* logger.
C20_DisabledForwardsNothing ==
    (logOp.op = "log" /\ ~logOp.enabled) => logger.core.lines = logOp.before


(***************************************************************************)
(* SpecNotify: one notify(value) of an EventSource, one callback at a      *)
(* time.  forEach visits the Map's entries from the front and the          *)
(* callbacks append entries at the end; an entry the cursor has passed is  *)
(* not visited again.  nfMap holds the entries ahead of the cursor, and an *)
(* id names a new entry again once the entry that had it is behind the     *)
(* cursor.  The callbacks are those that record, that dispose themselves   *)
(* and that register.                                                      *)
(***************************************************************************)
PassKinds == {"log", "disposeSelf", "register", "respawn"}

\* The id uuid() hands out after id.
NextId(id) == (id % MaxIds) + 1

InitNotify ==
    /\ uuid = 1
    /\ outcome = "ok"
    /\ NoEventSource
    /\ NoProperty
    /\ NoConfiguration
    /\ NoLogger
    /\ nfMap = <<>>
    /\ nfPass = [phase |-> "idle", value |-> Undefined, last |-> 0]

\* A caller registers a handler before the notify call.
NfRegister(kind) ==
    /\ nfPass.phase = "idle"
    /\ Len(nfMap) < MaxHandlers
    /\ nfMap' = register(nfMap, uuid, kind, 0).handlers
    /\ uuid' = NextId(uuid)
    /\ UNCHANGED <<outcome, esVars, propVars, cfgVars, logVars, nfPass>>

\* notify(value) is called: forEach starts at the first entry.
NfNotify(value) ==
    /\ nfPass.phase = "idle"
    /\ nfPass' = [nfPass EXCEPT !.phase = "pass", !.value = value]
    /\ UNCHANGED <<uuid, outcome, esVars, propVars, cfgVars, logVars, nfMap>>

\* forEach calls the callback of the next entry and moves past it.
NfInvoke ==
    /\ nfPass.phase = "pass"
    /\ nfMap # <<>>
    /\ LET st == Invoke([handlers |-> nfMap, uuid |-> uuid,
                         calls |-> <<>>, thrown |-> FALSE], 1, nfPass.value)
       IN  /\ nfMap' = Tail(st.handlers)
           /\ uuid' = IF st.uuid = uuid THEN uuid ELSE NextId(uuid)
           /\ nfPass' = [nfPass EXCEPT !.last = st.calls[1][1]]
    /\ UNCHANGED <<outcome, esVars, propVars, cfgVars, logVars>>

\* forEach finds no further entry: notify returns.
NfReturn ==
    /\ nfPass.phase = "pass"
    /\ nfMap = <<>>
    /\ nfPass' = [nfPass EXCEPT !.phase = "returned"]
    /\ UNCHANGED <<uuid, outcome, esVars, propVars, cfgVars, logVars, nfMap>>

NextNotify ==
    \/ \E kind \in PassKinds : NfRegister(kind)
    \/ \E value \in EventValues : NfNotify(value)
    \/ NfInvoke
    \/ NfReturn

\* notify runs synchronously: once called, forEach goes on to the next
\* entry, and returns when there is none.
SpecNotify ==
    /\ InitNotify
    /\ [][NextNotify]_vars
    /\ WF_vars(NfInvoke)
    /\ WF_vars(NfReturn)

\* C18 as claimed: every notify call returns, whatever the registered
\* handlers register on the source during the pass.
C18_NotifyTerminates == (nfPass.phase = "pass") ~> (nfPass.phase = "returned")
====
